---- MODULE Spec2Model ----
(***************************************************************************)
(* ThachAI custom platform (ai_integrations/custom_platform_integration.py) *)
(* The session store, the capability registry, the capability dispatcher   *)
(* and its three transports (POST /ai/process, the /ws/{session_id}        *)
(* channel, the deferred background task) as a state machine.              *)
(*                                                                         *)
(* JSON objects are functions from key strings to values.  datetime.now()  *)
(* is the variable now; one handler step reads one clock value, and the    *)
(* clock only moves forward between steps.  uuid4 is the choice of an id   *)
(* that is not in use.  Every downstream HTTP call gets its outcome from   *)
(* the environment: a transport exception, a status code, a body.          *)
(***************************************************************************)
EXTENDS Integers, Sequences, FiniteSets, TLC

VARIABLES
    now,                    \* the wall clock read by datetime.now()
    capabilities,           \* self.capabilities: id -> AICapability
    active_sessions,        \* self.active_sessions: session id -> PlatformSession
    websocket_connections,  \* self.websocket_connections: session id -> WebSocket
    sockets,                \* the /ws channels whose endpoint coroutine is running
    background_tasks,       \* tasks added by add_task and not yet run
    last                    \* what the last step answered, dispatched and called

vars == <<now, capabilities, active_sessions, websocket_connections, sockets,
          background_tasks, last>>

-----------------------------------------------------------------------------
(* Bounds of the model *)

MaxSessions == 2
MaxTime == 1
MaxTasks == 1
MaxConns == 2
MaxArticles == 2

-----------------------------------------------------------------------------
(* JSON values *)

Obj(f) == [type |-> "object", items |-> f]
NonDict == [type |-> "string", items |-> [value |-> "hello"]]
IsDict(v) == v.type = "object"

\* dict.get(key, default)
Get(v, key, default) == IF key \in DOMAIN v.items THEN v.items[key] ELSE default

-----------------------------------------------------------------------------
(* The downstream backend at localhost:5000 *)

EmailEndpoint    == "POST /api/messaging/send-email"
SmsEndpoint      == "POST /api/messaging/send-sms"
TelegramEndpoint == "POST /api/messaging/send-telegram"
ZaloEndpoint     == "POST /api/messaging/send-zalo"
NlpEndpoint      == "POST /api/ai/voice-command"
TiktokEndpoint   == "POST /api/tiktok/generate-content"
ShopeeEndpoint   == "GET /api/shopee/monitored-products"
DataEndpoint     == "GET /api/data/latest"

SendEndpoints == {EmailEndpoint, SmsEndpoint, TelegramEndpoint, ZaloEndpoint}

\* What one requests.post / requests.get can do: raise (connection refused,
\* timeout), or answer with a status code and a body that is JSON or not.
ErrorPayload == [detail |-> "Internal Server Error"]
NoPayload    == [none |-> "none"]
OkPayload    == [ok |-> "true"]

Downstream ==
    { [raises |-> TRUE,  status_code |-> 0,   is_json |-> FALSE, json |-> NoPayload],
      [raises |-> FALSE, status_code |-> 500, is_json |-> TRUE,  json |-> ErrorPayload],
      [raises |-> FALSE, status_code |-> 200, is_json |-> FALSE, json |-> NoPayload],
      [raises |-> FALSE, status_code |-> 200, is_json |-> TRUE,  json |-> OkPayload] }

\* the JSON body the backend answers an endpoint with when it answers 200
PayloadOf(endpoint) ==
    CASE endpoint \in SendEndpoints -> [status |-> "sent"]
      [] endpoint = NlpEndpoint      -> [intent |-> "greeting", response |-> "Xin chao"]
      [] endpoint = TiktokEndpoint   -> [script |-> "Tet", hashtags |-> "#tet"]
      [] endpoint = ShopeeEndpoint   -> [products |-> "[]"]
      [] endpoint = DataEndpoint     -> [weather |-> "{}"]

\* the response of one call to an endpoint
Respond(endpoint, d) ==
    IF ~d.raises /\ d.status_code = 200 /\ d.is_json
    THEN [d EXCEPT !.json = PayloadOf(endpoint)]
    ELSE d

DownstreamOk(d) == ~d.raises /\ d.status_code = 200 /\ d.is_json
DownstreamFailed(d) == d.raises \/ d.status_code # 200

ConnectionError == "Connection refused"
JSONDecodeError == "Expecting value: line 1 column 1 (char 0)"
AttributeError  == "'str' object has no attribute 'get'"

-----------------------------------------------------------------------------
(* Handlers.  Each yields what it returned or raised, and the downstream   *)
(* calls it issued, in order.                                              *)

Returned(value, calls) == [raised |-> FALSE, value |-> value, calls |-> calls]
Raises(message, calls) == [raised |-> TRUE, value |-> [exception |-> message], calls |-> calls]

\* RelayJson issuing the request once more after it failed
RelayJsonRetrying(endpoint, d, failed, prefix) ==
    Returned(
        IF d.raises THEN [error |-> prefix \o ConnectionError]
        ELSE IF d.status_code = 200
             THEN IF d.is_json THEN Respond(endpoint, d).json
                  ELSE [error |-> prefix \o JSONDecodeError]
             ELSE [error |-> failed],
        IF d.raises \/ d.status_code # 200
        THEN <<[endpoint |-> endpoint, response |-> Respond(endpoint, d)],
               [endpoint |-> endpoint, response |-> Respond(endpoint, d)]>>
        ELSE <<[endpoint |-> endpoint, response |-> Respond(endpoint, d)]>>)

\* RelayJson handing the body on inside a wrapper instead of as it came
RelayJsonWrapped(endpoint, d, failed, prefix) ==
    Returned(
        IF d.raises THEN [error |-> prefix \o ConnectionError]
        ELSE IF d.status_code = 200
             THEN IF d.is_json THEN [data |-> Respond(endpoint, d).json]
                  ELSE [error |-> prefix \o JSONDecodeError]
             ELSE [error |-> failed],
        <<[endpoint |-> endpoint, response |-> Respond(endpoint, d)]>>)

\* try: response = requests.<verb>(endpoint); 200 -> response.json(),
\* otherwise {"error": failed}; except Exception as e -> {"error": prefix + str(e)}
RelayJson(endpoint, d, failed, prefix) ==
    Returned(
        IF d.raises THEN [error |-> prefix \o ConnectionError]
        ELSE IF d.status_code = 200
             THEN IF d.is_json THEN Respond(endpoint, d).json
                  ELSE [error |-> prefix \o JSONDecodeError]
             ELSE [error |-> failed],
        <<[endpoint |-> endpoint, response |-> Respond(endpoint, d)]>>)

process_vietnamese_text(input_data, session, d) ==
    IF ~IsDict(input_data) THEN Raises(AttributeError, <<>>)
    ELSE Returned(
        IF d.raises THEN [error |-> "NLP processing failed: " \o ConnectionError]
        ELSE IF d.status_code = 200
             THEN IF d.is_json
                  THEN LET data == Obj(Respond(NlpEndpoint, d).json)
                       IN  [intent          |-> Get(data, "intent", "unknown"),
                            response        |-> Get(data, "response", ""),
                            actions         |-> Get(data, "actions", "[]"),
                            processing_time |-> Get(data, "processing_time", "0")]
                  ELSE [error |-> "NLP processing failed: " \o JSONDecodeError]
             ELSE [error |-> "NLP service unavailable"],
        <<[endpoint |-> NlpEndpoint, response |-> Respond(NlpEndpoint, d)]>>)

generate_content(input_data, session, d) ==
    IF ~IsDict(input_data) THEN Raises(AttributeError, <<>>)
    ELSE IF Get(input_data, "platform", "tiktok") = "tiktok"
         THEN RelayJson(TiktokEndpoint, d, "Content generation failed",
                        "Content generation error: ")
         ELSE Returned([error |-> "Platform not supported"], <<>>)

monitor_prices(input_data, session, d) ==
    IF ~IsDict(input_data) THEN Raises(AttributeError, <<>>)
    ELSE IF Get(input_data, "platform", "shopee") = "shopee"
         THEN RelayJson(ShopeeEndpoint, d, "Price monitoring service unavailable",
                        "Price monitoring error: ")
         ELSE Returned([error |-> "Platform not supported"], <<>>)

process_voice_command(input_data, session, d) ==
    IF ~IsDict(input_data) THEN Raises(AttributeError, <<>>)
    ELSE IF Get(input_data, "transcript", "") # ""
         THEN process_vietnamese_text(
                  Obj([text |-> Get(input_data, "transcript", ""), task |-> "intent"]),
                  session, d)
         ELSE Returned([error |-> "No transcript provided"], <<>>)

\* The endpoint the platform selector routes to; "" when it routes nowhere.
SendEndpointOf(platform) ==
    CASE platform = "email"    -> EmailEndpoint
      [] platform = "sms"      -> SmsEndpoint
      [] platform = "telegram" -> TelegramEndpoint
      [] platform = "zalo"     -> ZaloEndpoint
      [] OTHER                 -> ""

\* a selector default that names no platform
NoDefaultPlatform == ""

\* input_data.get("platform", "email")
DefaultPlatform == "email"

send_multi_platform_message(input_data, session, d) ==
    IF ~IsDict(input_data) THEN Raises(AttributeError, <<>>)
    ELSE LET platform == Get(input_data, "platform", DefaultPlatform)
         IN  IF SendEndpointOf(platform) = ""
             THEN Returned([error |-> "Platform not supported"], <<>>)
             ELSE RelayJson(SendEndpointOf(platform), d, "Message sending failed",
                            "Messaging error: ")

-----------------------------------------------------------------------------
(* Analytics helpers.  A text is a sequence of syllables, a marker is a    *)
(* sequence of syllables, and `marker in text` is containment as a         *)
(* contiguous run.  Numbers are integers (changes in hundredths).          *)

positive_keywords ==
    << <<"tang">>, <<"phat", "trien">>, <<"thanh", "cong">>, <<"tich", "cuc">>,
       <<"cai", "thien">> >>
negative_keywords ==
    << <<"giam">>, <<"kho", "khan">>, <<"that", "bai">>, <<"tieu", "cuc">>,
       <<"khung", "hoang">> >>

\* str.lower() on one syllable
LowerSyllable(w) ==
    CASE w = "Tang" -> "tang"
      [] w = "Giam" -> "giam"
      [] w = "TANG" -> "tang"
      [] w = "TikTok" -> "tiktok"
      [] w = "Gia" -> "gia"
      [] w = "Shopee" -> "shopee"
      [] OTHER      -> w

Lower(text) == [i \in 1..Len(text) |-> LowerSyllable(text[i])]

\* keyword in text
Contains(text, keyword) ==
    \E i \in 1..(Len(text) - Len(keyword) + 1) :
        SubSeq(text, i, i + Len(keyword) - 1) = keyword

TextOf(article, key) == IF key \in DOMAIN article THEN article[key] ELSE <<>>

\* KeywordHits looking at the title only
KeywordHitsTitleOnly(keywords, title, description) ==
    Cardinality({k \in 1..Len(keywords) : Contains(title, keywords[k])})

\* for keyword in keywords: if keyword in title or keyword in description: +1
KeywordHits(keywords, title, description) ==
    Cardinality({k \in 1..Len(keywords) :
        Contains(title, keywords[k]) \/ Contains(description, keywords[k])})

ArticleScore(article) ==
    LET title       == Lower(TextOf(article, "title"))
        description == Lower(TextOf(article, "description"))
    IN  KeywordHits(positive_keywords, title, description)
        - KeywordHits(negative_keywords, title, description)

RECURSIVE SentimentScore(_)
SentimentScore(news) ==
    IF news = <<>> THEN 0
    ELSE ArticleScore(Head(news)) + SentimentScore(Tail(news))

Abs(n) == IF n < 0 THEN -n ELSE n

analyze_news_sentiment(news) ==
    IF news = <<>> THEN [sentiment |-> "neutral", articles |-> 0]
    ELSE LET sentiment_score == SentimentScore(news)
         IN  [sentiment  |-> IF sentiment_score > 0 THEN "positive"
                             ELSE IF sentiment_score < 0 THEN "negative"
                             ELSE "neutral",
              score      |-> sentiment_score,
              articles   |-> Len(news),
              \* min(abs(score) / len(news), 1.0) as a fraction
              confidence |-> IF Abs(sentiment_score) >= Len(news)
                             THEN [num |-> 1, den |-> 1]
                             ELSE [num |-> Abs(sentiment_score), den |-> Len(news)]]

NumberOf(item, key) == IF key \in DOMAIN item THEN item[key] ELSE 0

RECURSIVE SumOf(_, _)
SumOf(items, key) ==
    IF items = <<>> THEN 0 ELSE NumberOf(Head(items), key) + SumOf(Tail(items), key)

\* round(total / n): to the nearest integer, ties to the even one
RoundDiv(total, n) ==
    LET q == total \div n
        r == total % n
    IN  IF 2 * r < n THEN q
        ELSE IF 2 * r > n THEN q + 1
        ELSE IF q % 2 = 0 THEN q ELSE q + 1

analyze_stock_trends(stocks) ==
    IF stocks = <<>> THEN [trend |-> "neutral", stocks |-> 0]
    ELSE LET positive_changes ==
                 Cardinality({i \in 1..Len(stocks) : NumberOf(stocks[i], "change") > 0})
             negative_changes ==
                 Cardinality({i \in 1..Len(stocks) : NumberOf(stocks[i], "change") < 0})
         IN  [trend           |-> IF positive_changes > negative_changes THEN "bullish"
                                  ELSE IF negative_changes > positive_changes THEN "bearish"
                                  ELSE "neutral",
              average_change  |-> RoundDiv(SumOf(stocks, "change"), Len(stocks)),
              positive_stocks |-> positive_changes,
              negative_stocks |-> negative_changes,
              total_stocks    |-> Len(stocks)]

analyze_social_media(social) ==
    IF social = <<>> THEN [engagement |-> "low", posts |-> 0]
    ELSE LET total_engagement == SumOf(social, "engagement")
         IN  [engagement         |-> IF total_engagement > 1000 * Len(social) THEN "high"
                                     ELSE IF total_engagement > 500 * Len(social) THEN "medium"
                                     ELSE "low",
              total_engagement   |-> total_engagement,
              average_engagement |-> RoundDiv(total_engagement, Len(social)),
              posts              |-> Len(social)]

ListOf(data, key) == IF key \in DOMAIN data THEN data[key] ELSE <<>>

analyze_business_data(input_data, session, d, clock) ==
    IF ~IsDict(input_data) THEN Raises(AttributeError, <<>>)
    ELSE Returned(
        IF d.raises THEN [error |-> "Business analysis error: " \o ConnectionError]
        ELSE IF d.status_code = 200
             THEN IF d.is_json
                  THEN LET data == Respond(DataEndpoint, d).json
                       IN  [news_insights     |-> analyze_news_sentiment(ListOf(data, "news")),
                            market_trends     |-> analyze_stock_trends(ListOf(data, "stocks")),
                            social_engagement |-> analyze_social_media(ListOf(data, "social")),
                            weather_impact    |-> IF "weather" \in DOMAIN data
                                                  THEN data["weather"] ELSE "{}",
                            timestamp         |-> clock]
                  ELSE [error |-> "Business analysis error: " \o JSONDecodeError]
             ELSE [error |-> "Data source unavailable"],
        <<[endpoint |-> DataEndpoint, response |-> Respond(DataEndpoint, d)]>>)

\* default_processor answering without the input it was given
default_processor_no_echo(capability_id, input_data, session) ==
    Returned([message    |-> "Capability " \o capability_id \o " processed successfully",
              session_id |-> session.session_id],
             <<>>)

default_processor(capability_id, input_data, session) ==
    Returned([message    |-> "Capability " \o capability_id \o " processed successfully",
              input_data |-> input_data,
              session_id |-> session.session_id],
             <<>>)

-----------------------------------------------------------------------------
(* The capability registry *)

BuiltinIds ==
    {"vietnamese_nlp", "content_generation", "price_monitoring", "voice_command",
     "multi_messaging", "business_analytics"}

HandlerOf(id) ==
    CASE id = "vietnamese_nlp"     -> "process_vietnamese_text"
      [] id = "content_generation" -> "generate_content"
      [] id = "price_monitoring"   -> "monitor_prices"
      [] id = "voice_command"      -> "process_voice_command"
      [] id = "multi_messaging"    -> "send_multi_platform_message"
      [] id = "business_analytics" -> "analyze_business_data"

\* processing_function: Optional[Callable] = None
NoHandler == "None"

\* register_capabilities leaving out the handler of voice_command
register_capabilities_no_voice_handler ==
    [id \in BuiltinIds |-> [id |-> id, enabled |-> TRUE,
                            processing_function |->
                                IF id = "voice_command" THEN NoHandler ELSE HandlerOf(id)]]

\* register_capabilities: six descriptors, all enabled, each with its handler
register_capabilities ==
    [id \in BuiltinIds |-> [id |-> id, enabled |-> TRUE,
                            processing_function |-> HandlerOf(id)]]

\* await capability.processing_function(input_data, session)
Invoke(processing_function, input_data, session, d, clock) ==
    CASE processing_function = "process_vietnamese_text" ->
             process_vietnamese_text(input_data, session, d)
      [] processing_function = "generate_content" ->
             generate_content(input_data, session, d)
      [] processing_function = "monitor_prices" ->
             monitor_prices(input_data, session, d)
      [] processing_function = "process_voice_command" ->
             process_voice_command(input_data, session, d)
      [] processing_function = "send_multi_platform_message" ->
             send_multi_platform_message(input_data, session, d)
      [] processing_function = "analyze_business_data" ->
             analyze_business_data(input_data, session, d, clock)

-----------------------------------------------------------------------------
(* The dispatcher *)

HTTPException(status_code, detail) ==
    [kind |-> "raise", status_code |-> status_code, detail |-> detail]

Envelope(body) == [kind |-> "return", body |-> body]

\* What a dispatch yields: the outcome at the dispatcher's boundary, the
\* handler it invoked ("" when none) and the downstream calls it issued.
NotFound ==
    [outcome |-> HTTPException(404, "Capability not found"), invoked |-> "",
     calls |-> <<>>]

Forbidden ==
    [outcome |-> HTTPException(403, "Capability disabled"), invoked |-> "",
     calls |-> <<>>]

Success(capability_id, session, h, name, clock) ==
    [outcome |-> Envelope([success       |-> TRUE,
                           capability_id |-> capability_id,
                           result        |-> h.value,
                           session_id    |-> session.session_id,
                           timestamp     |-> clock]),
     invoked |-> name, calls |-> h.calls]

Failure(capability_id, session, h, name) ==
    [outcome |-> Envelope([success       |-> FALSE,
                           error         |-> h.value.exception,
                           capability_id |-> capability_id,
                           session_id    |-> session.session_id]),
     invoked |-> name, calls |-> h.calls]

\* Guarded without its except clause: the handler's exception leaves the
\* dispatcher
GuardedNoExcept(capability_id, session, h, name, clock) ==
    IF ~h.raised
    THEN Success(capability_id, session, h, name, clock)
    ELSE [outcome |-> HTTPException(500, h.value.exception), invoked |-> name,
          calls |-> h.calls]

\* try: result = await handler(...); return success envelope
\* except Exception as e: return failure envelope
Guarded(capability_id, session, h, name, clock) ==
    IF ~h.raised
    THEN Success(capability_id, session, h, name, clock)
    ELSE Failure(capability_id, session, h, name)

\* the processing function of the descriptor, or default_processor
CallProcessor(capability, input_data, session, d, clock) ==
    IF capability.processing_function # NoHandler
    THEN Guarded(capability.id, session,
                 Invoke(capability.processing_function, input_data, session, d, clock),
                 capability.processing_function, clock)
    ELSE Guarded(capability.id, session,
                 default_processor(capability.id, input_data, session),
                 "default_processor", clock)

\* process_ai_capability answering an unknown id with a failure envelope
\* instead of raising 404
process_ai_capability_unknown_enveloped(capability_id, input_data, session, d, clock) ==
    IF capability_id \notin DOMAIN capabilities
    THEN [outcome |-> Envelope([success       |-> FALSE,
                                error         |-> "Capability not found",
                                capability_id |-> capability_id,
                                session_id    |-> session.session_id]),
          invoked |-> "", calls |-> <<>>]
    ELSE IF ~capabilities[capability_id].enabled THEN Forbidden
    ELSE CallProcessor(capabilities[capability_id], input_data, session, d, clock)

\* process_ai_capability without the check of the enabled flag
process_ai_capability_flag_ignored(capability_id, input_data, session, d, clock) ==
    IF capability_id \notin DOMAIN capabilities THEN NotFound
    ELSE CallProcessor(capabilities[capability_id], input_data, session, d, clock)

\* process_ai_capability refusing a capability the session was not granted
process_ai_capability_grants_enforced(capability_id, input_data, session, d, clock) ==
    IF capability_id \notin DOMAIN capabilities THEN NotFound
    ELSE IF ~capabilities[capability_id].enabled THEN Forbidden
    ELSE IF \A i \in 1..Len(session.capabilities) : session.capabilities[i] # capability_id
    THEN Forbidden
    ELSE CallProcessor(capabilities[capability_id], input_data, session, d, clock)

process_ai_capability(capability_id, input_data, session, d, clock) ==
    IF capability_id \notin DOMAIN capabilities THEN NotFound
    ELSE IF ~capabilities[capability_id].enabled THEN Forbidden
    ELSE CallProcessor(capabilities[capability_id], input_data, session, d, clock)

-----------------------------------------------------------------------------
(* Requests the clients send *)

SessionIds == 1..MaxSessions
\* a session id of a request: one the store may hold, or one it never holds
RequestSessionIds == 1..(MaxSessions + 1)

\* the session ids channels are opened for: the first session's, and one the
\* store never holds
WebSocketSessionIds == {1, MaxSessions + 1}

PlatformTypes == {"web", "mobile", "desktop", "iot", "voice", "chat"}

\* bodies of POST /session/create
AllCreateSessionRequests ==
    { [platform_type |-> "web",   user_id |-> "u1", capabilities |-> <<>>],
      [platform_type |-> "voice", user_id |-> "u2",
       capabilities |-> <<"multi_messaging", "ghost_capability">>],
      [platform_type |-> "tv",    user_id |-> "u1", capabilities |-> <<>>] }

\* the bodies the whole server is run with
CreateSessionRequests ==
    { [platform_type |-> "web", user_id |-> "u1", capabilities |-> <<>>],
      [platform_type |-> "tv",  user_id |-> "u1", capabilities |-> <<>>] }

Message(platform) ==
    Obj([platform |-> platform, content |-> "hi", recipient |-> "a@b.com"])
NoPlatform == Obj([content |-> "hi", recipient |-> "a@b.com"])
Spoken     == Obj([transcript |-> "xin chao"])

AIRequest(capability_id, input_data, async_processing) ==
    [capability_id |-> capability_id, input_data |-> input_data,
     async_processing |-> async_processing]

\* bodies of POST /ai/process, less the session id: one per path of every handler
AllAIProcessRequests ==
    { AIRequest("multi_messaging", Message(p), FALSE) :
          p \in {"email", "sms", "telegram", "zalo", "fax"} }
    \cup { AIRequest("multi_messaging", NoPlatform, FALSE),
           AIRequest("multi_messaging", Message("email"), TRUE),
           AIRequest("vietnamese_nlp", NoPlatform, FALSE),
           AIRequest("voice_command", Spoken, FALSE),
           AIRequest("voice_command", NoPlatform, FALSE),
           AIRequest("content_generation", NoPlatform, FALSE),
           AIRequest("content_generation", Message("fax"), FALSE),
           AIRequest("price_monitoring", NoPlatform, FALSE),
           AIRequest("price_monitoring", Message("fax"), FALSE),
           AIRequest("business_analytics", NoPlatform, FALSE),
           AIRequest("no_such_capability", NoPlatform, FALSE) }

\* the bodies the whole server is run with
AIProcessRequests ==
    { AIRequest("multi_messaging", Message("email"), FALSE),
      AIRequest("multi_messaging", Message("email"), TRUE),
      AIRequest("custom_echo", NoPlatform, FALSE),
      AIRequest("no_such_capability", NoPlatform, FALSE),
      AIRequest("no_such_capability", NoPlatform, TRUE) }

\* the texts a client sends over /ws/{session_id}
WebSocketMessages ==
    { [json |-> TRUE, type |-> "ai_request", capability_id |-> "multi_messaging",
       data |-> Message("email")],
      [json |-> TRUE, type |-> "ai_request", capability_id |-> "multi_messaging",
       data |-> NonDict],
      [json |-> TRUE, type |-> "ai_request", capability_id |-> "no_such_capability",
       data |-> NoPlatform],
      [json |-> TRUE, type |-> "ping", capability_id |-> "", data |-> NoPlatform],
      [json |-> TRUE, type |-> "subscribe", capability_id |-> "", data |-> NoPlatform],
      [json |-> FALSE, type |-> "", capability_id |-> "", data |-> NoPlatform] }

-----------------------------------------------------------------------------
(* State *)

NoDispatch == <<>>
NoResponse == [status_code |-> 0, body |-> [none |-> "none"]]

\* a step's record: the operation, the session id and capability id it was
\* asked for, the dispatch it made (none, or one) and what it answered
Step(op, session_id, capability_id, dispatch, response) ==
    [op |-> op, session_id |-> session_id, capability_id |-> capability_id,
     dispatch |-> dispatch, response |-> response]

Dispatched(transport, capability_id, input_data, session_id, r) ==
    <<[transport |-> transport, capability_id |-> capability_id,
       input_data |-> input_data, session_id |-> session_id,
       outcome |-> r.outcome, invoked |-> r.invoked, calls |-> r.calls]>>

Init ==
    /\ now = 0
    /\ capabilities = register_capabilities
    /\ active_sessions = <<>>
    /\ websocket_connections = <<>>
    /\ sockets = <<>>
    /\ background_tasks = <<>>
    /\ last = Step("init", 0, "", NoDispatch, NoResponse)

\* dict assignment d[k] = v
Put(f, k, v) == [x \in DOMAIN f \cup {k} |-> IF x = k THEN v ELSE f[x]]
\* del d[k]
Del(f, k) == [x \in DOMAIN f \ {k} |-> f[x]]

\* time passes
Tick ==
    /\ now < MaxTime
    /\ now' = now + 1
    /\ last' = Step("tick", 0, "", NoDispatch, NoResponse)
    /\ UNCHANGED <<capabilities, active_sessions, websocket_connections, sockets,
                   background_tasks>>

\* create_session answering with the requested capability ids only
create_session_requested_only(request, session_id) ==
    /\ IF request.platform_type \notin PlatformTypes
       THEN /\ last' = Step("create_session", 0, "", NoDispatch,
                            [status_code |-> 500,
                             body |-> [detail |-> "Internal Server Error"]])
            /\ UNCHANGED active_sessions
       ELSE /\ session_id \notin DOMAIN active_sessions
            /\ active_sessions' =
                   Put(active_sessions, session_id,
                       [session_id    |-> session_id,
                        platform_type |-> request.platform_type,
                        user_id       |-> request.user_id,
                        capabilities  |-> request.capabilities,
                        created_at    |-> now,
                        last_activity |-> now])
            /\ last' = Step("create_session", session_id, "", NoDispatch,
                            [status_code |-> 200,
                             body |-> [session_id |-> session_id,
                                       status |-> "created",
                                       available_capabilities |->
                                           {request.capabilities[i] :
                                                i \in 1..Len(request.capabilities)},
                                       platform_type |-> request.platform_type]])
    /\ UNCHANGED <<now, capabilities, websocket_connections, sockets, background_tasks>>

\* POST /session/create
create_session(request, session_id) ==
    /\ IF request.platform_type \notin PlatformTypes
       THEN \* PlatformType(...) raises ValueError: 500, nothing stored
            /\ last' = Step("create_session", 0, "", NoDispatch,
                            [status_code |-> 500,
                             body |-> [detail |-> "Internal Server Error"]])
            /\ UNCHANGED active_sessions
       ELSE /\ session_id \notin DOMAIN active_sessions
            /\ active_sessions' =
                   Put(active_sessions, session_id,
                       [session_id    |-> session_id,
                        platform_type |-> request.platform_type,
                        user_id       |-> request.user_id,
                        capabilities  |-> request.capabilities,
                        created_at    |-> now,
                        last_activity |-> now])
            /\ last' = Step("create_session", session_id, "", NoDispatch,
                            [status_code |-> 200,
                             body |-> [session_id |-> session_id,
                                       status |-> "created",
                                       available_capabilities |-> DOMAIN capabilities,
                                       platform_type |-> request.platform_type]])
    /\ UNCHANGED <<now, capabilities, websocket_connections, sockets, background_tasks>>

\* The response FastAPI sends for what the route function returned or raised
HttpResponse(outcome) ==
    IF outcome.kind = "raise"
    THEN [status_code |-> outcome.status_code, body |-> [detail |-> outcome.detail]]
    ELSE [status_code |-> 200, body |-> outcome.body]

\* Touched writing the clock into created_at as well
TouchedCreated(sessions, session_id, clock) ==
    [sessions EXCEPT ![session_id].last_activity = clock,
                     ![session_id].created_at = clock]

\* session.last_activity = datetime.now()
Touched(sessions, session_id, clock) ==
    [sessions EXCEPT ![session_id].last_activity = clock]

\* process_ai_request answering an unknown session id with a failure envelope
\* instead of 404
process_ai_request_unknown_enveloped(session_id, request, d) ==
    IF session_id \notin DOMAIN active_sessions
    THEN /\ last' = Step("process_ai_request", session_id, request.capability_id,
                         NoDispatch,
                         [status_code |-> 200,
                          body |-> [success |-> FALSE, error |-> "Session not found",
                                    capability_id |-> request.capability_id,
                                    session_id |-> session_id]])
         /\ UNCHANGED <<now, capabilities, active_sessions, websocket_connections,
                        sockets, background_tasks>>
    ELSE LET session == Touched(active_sessions, session_id, now)[session_id]
             r == process_ai_capability(request.capability_id, request.input_data,
                                        session, d, now)
         IN  /\ request.async_processing /\ r.outcome.kind = "return"
                    => Len(background_tasks) < MaxTasks
             /\ active_sessions' = Touched(active_sessions, session_id, now)
             /\ background_tasks' =
                    IF request.async_processing /\ r.outcome.kind = "return"
                    THEN Append(background_tasks,
                                [capability_id |-> request.capability_id,
                                 input_data    |-> request.input_data,
                                 session_id    |-> session_id])
                    ELSE background_tasks
             /\ last' = Step("process_ai_request", session_id, request.capability_id,
                             Dispatched("http", request.capability_id,
                                        request.input_data, session_id, r),
                             HttpResponse(r.outcome))
             /\ UNCHANGED <<now, capabilities, websocket_connections, sockets>>

\* process_ai_request adding the background task whatever the async flag says
process_ai_request_flag_ignored(session_id, request, d) ==
    IF session_id \notin DOMAIN active_sessions
    THEN /\ last' = Step("process_ai_request", session_id, request.capability_id,
                         NoDispatch,
                         HttpResponse(HTTPException(404, "Session not found")))
         /\ UNCHANGED <<now, capabilities, active_sessions, websocket_connections,
                        sockets, background_tasks>>
    ELSE LET session == Touched(active_sessions, session_id, now)[session_id]
             r == process_ai_capability(request.capability_id, request.input_data,
                                        session, d, now)
         IN  /\ r.outcome.kind = "return" => Len(background_tasks) < MaxTasks
             /\ active_sessions' = Touched(active_sessions, session_id, now)
             /\ background_tasks' =
                    IF r.outcome.kind = "return"
                    THEN Append(background_tasks,
                                [capability_id |-> request.capability_id,
                                 input_data    |-> request.input_data,
                                 session_id    |-> session_id])
                    ELSE background_tasks
             /\ last' = Step("process_ai_request", session_id, request.capability_id,
                             Dispatched("http", request.capability_id,
                                        request.input_data, session_id, r),
                             HttpResponse(r.outcome))
             /\ UNCHANGED <<now, capabilities, websocket_connections, sockets>>

\* process_ai_request adding the background task before it awaits the dispatch
process_ai_request_enqueues_first(session_id, request, d) ==
    IF session_id \notin DOMAIN active_sessions
    THEN /\ last' = Step("process_ai_request", session_id, request.capability_id,
                         NoDispatch,
                         HttpResponse(HTTPException(404, "Session not found")))
         /\ UNCHANGED <<now, capabilities, active_sessions, websocket_connections,
                        sockets, background_tasks>>
    ELSE LET session == Touched(active_sessions, session_id, now)[session_id]
             r == process_ai_capability(request.capability_id, request.input_data,
                                        session, d, now)
         IN  /\ request.async_processing => Len(background_tasks) < MaxTasks
             /\ active_sessions' = Touched(active_sessions, session_id, now)
             /\ background_tasks' =
                    IF request.async_processing
                    THEN Append(background_tasks,
                                [capability_id |-> request.capability_id,
                                 input_data    |-> request.input_data,
                                 session_id    |-> session_id])
                    ELSE background_tasks
             /\ last' = Step("process_ai_request", session_id, request.capability_id,
                             Dispatched("http", request.capability_id,
                                        request.input_data, session_id, r),
                             HttpResponse(r.outcome))
             /\ UNCHANGED <<now, capabilities, websocket_connections, sockets>>

\* POST /ai/process
process_ai_request(session_id, request, d) ==
    IF session_id \notin DOMAIN active_sessions
    THEN /\ last' = Step("process_ai_request", session_id, request.capability_id,
                         NoDispatch,
                         HttpResponse(HTTPException(404, "Session not found")))
         /\ UNCHANGED <<now, capabilities, active_sessions, websocket_connections,
                        sockets, background_tasks>>
    ELSE LET session == Touched(active_sessions, session_id, now)[session_id]
             r == process_ai_capability(request.capability_id, request.input_data,
                                        session, d, now)
         IN  /\ request.async_processing /\ r.outcome.kind = "return"
                    => Len(background_tasks) < MaxTasks
             /\ active_sessions' = Touched(active_sessions, session_id, now)
             /\ background_tasks' =
                    IF request.async_processing /\ r.outcome.kind = "return"
                    THEN Append(background_tasks,
                                [capability_id |-> request.capability_id,
                                 input_data    |-> request.input_data,
                                 session_id    |-> session_id])
                    ELSE background_tasks
             /\ last' = Step("process_ai_request", session_id, request.capability_id,
                             Dispatched("http", request.capability_id,
                                        request.input_data, session_id, r),
                             HttpResponse(r.outcome))
             /\ UNCHANGED <<now, capabilities, websocket_connections, sockets>>

\* handle_websocket_message raising on a type tag it does not know instead of
\* answering with an error
handle_websocket_message_unknown_raises(session_id, message, d) ==
    IF session_id \notin DOMAIN active_sessions
    THEN [outcome |-> Envelope([error |-> "Session not found"]), dispatch |-> NoDispatch]
    ELSE IF message.type = "ai_request"
    THEN LET r == process_ai_capability(message.capability_id, message.data,
                                        active_sessions[session_id], d, now)
         IN  [outcome  |-> r.outcome,
              dispatch |-> Dispatched("websocket", message.capability_id, message.data,
                                      session_id, r)]
    ELSE IF message.type = "ping"
    THEN [outcome |-> Envelope([type |-> "pong", timestamp |-> now]),
          dispatch |-> NoDispatch]
    ELSE [outcome |-> HTTPException(500, "Unknown message type"),
          dispatch |-> NoDispatch]

\* handle_websocket_message: what it returns or raises, and its dispatch
handle_websocket_message(session_id, message, d) ==
    IF session_id \notin DOMAIN active_sessions
    THEN [outcome |-> Envelope([error |-> "Session not found"]), dispatch |-> NoDispatch]
    ELSE IF message.type = "ai_request"
    THEN LET r == process_ai_capability(message.capability_id, message.data,
                                        active_sessions[session_id], d, now)
         IN  [outcome  |-> r.outcome,
              dispatch |-> Dispatched("websocket", message.capability_id, message.data,
                                      session_id, r)]
    ELSE IF message.type = "ping"
    THEN [outcome |-> Envelope([type |-> "pong", timestamp |-> now]),
          dispatch |-> NoDispatch]
    ELSE [outcome |-> Envelope([error |-> "Unknown message type"]),
          dispatch |-> NoDispatch]

\* /ws/{session_id}: accept, then register the connection under the session id
websocket_accept(ws, session_id) ==
    /\ ws \in (1..MaxConns) \ DOMAIN sockets
    /\ sockets' = Put(sockets, ws, [session_id |-> session_id])
    /\ websocket_connections' = Put(websocket_connections, session_id, ws)
    /\ last' = Step("websocket_accept", session_id, "", NoDispatch, NoResponse)
    /\ UNCHANGED <<now, capabilities, active_sessions, background_tasks>>

\* finally: if session_id in self.websocket_connections: del ...
Unregistered(session_id) ==
    IF session_id \in DOMAIN websocket_connections
    THEN Del(websocket_connections, session_id)
    ELSE websocket_connections

\* one turn of the serving loop: receive_text, json.loads, handle, send_text;
\* an exception anywhere ends the loop and runs the finally clause
websocket_receive(ws, message, d) ==
    /\ ws \in DOMAIN sockets
    /\ LET session_id == sockets[ws].session_id
           h == handle_websocket_message(session_id, message, d)
       IN  IF ~message.json
           THEN \* json.loads raises
                /\ sockets' = Del(sockets, ws)
                /\ websocket_connections' = Unregistered(session_id)
                /\ last' = Step("websocket_receive", session_id, "", NoDispatch,
                                [status_code |-> 0, body |-> [closed |-> ws]])
           ELSE IF h.outcome.kind = "raise"
           THEN /\ sockets' = Del(sockets, ws)
                /\ websocket_connections' = Unregistered(session_id)
                /\ last' = Step("websocket_receive", session_id, message.capability_id,
                                h.dispatch,
                                [status_code |-> 0, body |-> [closed |-> ws]])
           ELSE /\ last' = Step("websocket_receive", session_id, message.capability_id,
                                h.dispatch,
                                [status_code |-> 0,
                                 body |-> [sent |-> ws, text |-> h.outcome.body]])
                /\ UNCHANGED <<sockets, websocket_connections>>
    /\ UNCHANGED <<now, capabilities, active_sessions, background_tasks>>

\* the client goes away: receive_text raises WebSocketDisconnect
websocket_disconnect(ws) ==
    /\ ws \in DOMAIN sockets
    /\ sockets' = Del(sockets, ws)
    /\ websocket_connections' = Unregistered(sockets[ws].session_id)
    /\ last' = Step("websocket_disconnect", sockets[ws].session_id, "", NoDispatch,
                    [status_code |-> 0, body |-> [closed |-> ws]])
    /\ UNCHANGED <<now, capabilities, active_sessions, background_tasks>>

Without(seq, i) == SubSeq(seq, 1, i - 1) \o SubSeq(seq, i + 1, Len(seq))

\* background_process_task without the push: the result is dropped whether or
\* not a connection is registered
background_process_task_never_pushes(i, d) ==
    /\ i \in 1..Len(background_tasks)
    /\ LET task == background_tasks[i]
           r == process_ai_capability(task.capability_id, task.input_data,
                                      active_sessions[task.session_id], d, now)
           dispatch == Dispatched("background", task.capability_id, task.input_data,
                                  task.session_id, r)
       IN  /\ background_tasks' = Without(background_tasks, i)
           /\ last' =
                IF r.outcome.kind = "raise"
                THEN Step("background_process_task", task.session_id, task.capability_id,
                          dispatch,
                          [status_code |-> 0, body |-> [raised |-> r.outcome.detail]])
                ELSE Step("background_process_task", task.session_id, task.capability_id,
                          dispatch,
                          [status_code |-> 0, body |-> [dropped |-> TRUE]])
    /\ UNCHANGED <<now, capabilities, active_sessions, websocket_connections, sockets>>

\* background_process_task, after its sleep
background_process_task(i, d) ==
    /\ i \in 1..Len(background_tasks)
    /\ LET task == background_tasks[i]
           r == process_ai_capability(task.capability_id, task.input_data,
                                      active_sessions[task.session_id], d, now)
           dispatch == Dispatched("background", task.capability_id, task.input_data,
                                  task.session_id, r)
       IN  /\ background_tasks' = Without(background_tasks, i)
           /\ last' =
                IF r.outcome.kind = "raise"
                THEN Step("background_process_task", task.session_id, task.capability_id,
                          dispatch,
                          [status_code |-> 0, body |-> [raised |-> r.outcome.detail]])
                ELSE IF task.session_id \in DOMAIN websocket_connections
                THEN Step("background_process_task", task.session_id, task.capability_id,
                          dispatch,
                          [status_code |-> 0,
                           body |-> [sent |-> websocket_connections[task.session_id],
                                     text |-> [type |-> "background_result",
                                               result |-> r.outcome.body]]])
                ELSE Step("background_process_task", task.session_id, task.capability_id,
                          dispatch,
                          [status_code |-> 0, body |-> [dropped |-> TRUE]])
    /\ UNCHANGED <<now, capabilities, active_sessions, websocket_connections, sockets>>

\* The enabled flag is the one mutable field of a descriptor.
set_enabled(capability_id, enabled) ==
    /\ capability_id \in DOMAIN capabilities
    /\ capabilities[capability_id].enabled # enabled
    /\ capabilities' = [capabilities EXCEPT ![capability_id].enabled = enabled]
    /\ last' = Step("set_enabled", 0, capability_id, NoDispatch, NoResponse)
    /\ UNCHANGED <<now, active_sessions, websocket_connections, sockets,
                   background_tasks>>

\* self.capabilities[capability.id] = capability, for a descriptor without a
\* processing function
register(capability_id) ==
    /\ capability_id \notin DOMAIN capabilities
    /\ capabilities' = Put(capabilities, capability_id,
                           [id |-> capability_id, enabled |-> TRUE,
                            processing_function |-> NoHandler])
    /\ last' = Step("register", 0, capability_id, NoDispatch, NoResponse)
    /\ UNCHANGED <<now, active_sessions, websocket_connections, sockets,
                   background_tasks>>

-----------------------------------------------------------------------------
(* The Alexa skill webhook (ai_integrations/alexa_integration.py).  A JSON   *)
(* value is [type, items]; only an object has .get, and .get on anything    *)
(* else raises AttributeError.                                              *)

Str(text) == [type |-> "string", items |-> [value |-> text]]
Null      == [type |-> "null", items |-> [value |-> ""]]
Array     == [type |-> "array", items |-> [value |-> "[]"]]
EmptyObj  == Obj(<<>>)

\* what an expression evaluates to once an exception is on its way
Raised == [type |-> "raised", items |-> [value |-> AttributeError]]

\* v.get(key, default), the exception carried along a chain of .get calls
Attr(v, key, default) == IF IsDict(v) THEN Get(v, key, default) ELSE Raised

\* the text of a JSON string; "" for what is not one
Text(v) == IF v.type = "string" THEN v.items.value ELSE ""

\* response.json() of a 200 answer: the body of the endpoint, or a JSON array
ArrayPayload == [array |-> "[]"]

\* the outcomes of one downstream call of a voice webhook
VoiceDownstream ==
    Downstream \cup
    { [raises |-> FALSE, status_code |-> 200, is_json |-> TRUE, json |-> ArrayPayload] }

Apology == "Xin loi, co loi xay ra. Vui long thu lai."

\* create_response: card and reprompt only when given
create_response(output_speech, card_title, card_content, reprompt_text, should_end_session) ==
    [version |-> "1.0",
     response |->
         [outputSpeech     |-> [type |-> "PlainText", text |-> output_speech],
          shouldEndSession |-> should_end_session]
         @@ (IF card_title # "" /\ card_content # ""
             THEN [card |-> [type |-> "Simple", title |-> card_title,
                             content |-> card_content]]
             ELSE <<>>)
         @@ (IF reprompt_text # ""
             THEN [reprompt |-> [outputSpeech |-> [type |-> "PlainText",
                                                   text |-> reprompt_text]]]
             ELSE <<>>)]

\* create_response(text) with the defaults of the other parameters
Say(text) == create_response(text, "", "", "", TRUE)

\* a handler's try block around one downstream call:
\*   200 -> ok (data.get on a body that is no object raises AttributeError,
\*          response.json() on a body that is no JSON raises JSONDecodeError,
\*          which is a requests.RequestException or not, by the library's version)
\*   other status -> failed;  except requests.RequestException -> unavailable
AlexaCall(endpoint, d, json_error_is_request_exception, ok, failed, unavailable) ==
    LET calls == <<[endpoint |-> endpoint, response |-> Respond(endpoint, d)]>>
    IN  IF d.raises THEN Returned(Say(unavailable), calls)
        ELSE IF d.status_code # 200 THEN Returned(Say(failed), calls)
        ELSE IF ~d.is_json
             THEN IF json_error_is_request_exception
                  THEN Returned(Say(unavailable), calls)
                  ELSE Raises(JSONDecodeError, calls)
        ELSE IF d.json = ArrayPayload THEN Raises(AttributeError, calls)
        ELSE Returned(ok, calls)

handle_launch_request ==
    Returned(create_response("Chao mung den voi Thach AI! Ban can giup gi?",
                             "Thach AI Assistant",
                             "Tro ly AI thong minh cho content creator va doanh nhan",
                             "Ban co the noi 'tao video TikTok'", FALSE),
             <<>>)

handle_tiktok_creation(topic, d, jre) ==
    LET subject == IF topic = "" THEN "xu huong hien tai" ELSE topic
    IN  AlexaCall(TiktokEndpoint, d, jre,
            create_response("Da tao thanh cong script TikTok cho chu de '" \o subject
                                \o "'. Diem viral: 0/100, du kien N/A luot xem.",
                            "TikTok Script Created",
                            "Chu de: " \o subject, "", TRUE),
            "Khong the tao script TikTok luc nay. Vui long thu lai sau.",
            "Ket noi den dich vu TikTok Creator gap su co. Vui long thu lai.")

handle_shopee_check(product, d, jre) ==
    AlexaCall(ShopeeEndpoint, d, jre,
        create_response("Chua co san pham nao duoc theo doi.",
                        "Shopee Price Monitor",
                        "Monitoring: 0 products", "", TRUE),
        "Khong the truy cap du lieu Shopee luc nay.",
        "Dich vu Shopee Monitor tam thoi khong kha dung.")

PlatformName(platform) ==
    CASE platform \in {"email", "Email"} -> "Email"
      [] platform \in {"sms", "SMS"}     -> "SMS"
      [] platform = "telegram"           -> "Telegram"
      [] platform = "zalo"               -> "Zalo"
      [] OTHER                           -> platform

handle_send_message(platform, content) ==
    IF platform = ""
    THEN Returned(create_response(
             "Ban muon gui tin nhan qua nen tang nao? Email, SMS, Telegram, hay Zalo?",
             "", "", "", FALSE), <<>>)
    ELSE IF content = ""
    THEN Returned(create_response("Ban muon gui noi dung gi qua " \o platform \o "?",
                                  "", "", "", FALSE), <<>>)
    ELSE Returned(create_response(
             "Tin nhan da duoc chuan bi gui qua " \o PlatformName(platform) \o ".",
             "Message Ready", "Platform: " \o PlatformName(platform), "", TRUE), <<>>)

handle_weather_request(d, jre) ==
    AlexaCall(DataEndpoint, d, jre,
        create_response("Thoi tiet TP Ho Chi Minh: N/A do C, do am N/A%, gio N/A km/h.",
                        "Weather Update", "Temperature: N/A", "", TRUE),
        "Khong the lay thong tin thoi tiet luc nay.",
        "Dich vu thoi tiet tam thoi khong kha dung.")

handle_news_request(d, jre) ==
    AlexaCall(DataEndpoint, d, jre,
        Say("Hien tai chua co tin tuc moi."),
        "Khong the truy cap tin tuc luc nay.",
        "Dich vu tin tuc tam thoi khong kha dung.")

handle_help_intent ==
    Returned(create_response("Toi co the giup ban: Tao noi dung TikTok viral, ...",
                             "Thach AI Help", "Available commands", "Ban muon toi giup gi?",
                             FALSE), <<>>)

handle_stop_intent == Returned(Say("Tam biet! Hen gap lai ban."), <<>>)

handle_fallback_intent ==
    Returned(create_response("Toi chua hieu yeu cau cua ban.", "", "",
                             "Ban can toi giup gi?", FALSE), <<>>)

\* The outcome of a webhook: the body it answers with, or the exception that
\* leaves the view function (the framework answers 500), and the downstream
\* calls it made.
Answered(h) == [kind |-> "return", body |-> h.value, calls |-> h.calls]
Unhandled(h) == [kind |-> "raise", exception |-> h.value.exception, calls |-> h.calls]

handle_intent_request(request_data, d, jre) ==
    LET intent          == Attr(Attr(request_data, "request", EmptyObj), "intent", EmptyObj)
        intent_name     == Attr(intent, "name", Str(""))
        slots           == Attr(intent, "slots", EmptyObj)
        topic           == Attr(Attr(slots, "Topic", EmptyObj), "value", Str(""))
        product         == Attr(Attr(slots, "Product", EmptyObj), "value", Str(""))
        platform        == Attr(Attr(slots, "Platform", EmptyObj), "value", Str(""))
        message_content == Attr(Attr(slots, "MessageContent", EmptyObj), "value", Str(""))
        name            == Text(intent_name)
        h == CASE name = "CreateTikTokIntent" -> handle_tiktok_creation(Text(topic), d, jre)
               [] name = "CheckShopeeIntent"  -> handle_shopee_check(Text(product), d, jre)
               [] name = "SendMessageIntent"  ->
                      handle_send_message(Text(platform), Text(message_content))
               [] name = "GetWeatherIntent"   -> handle_weather_request(d, jre)
               [] name = "GetNewsIntent"      -> handle_news_request(d, jre)
               [] name = "AMAZON.HelpIntent"  -> handle_help_intent
               [] name \in {"AMAZON.StopIntent", "AMAZON.CancelIntent"} ->
                      handle_stop_intent
               [] OTHER -> handle_fallback_intent
    IN  \* the lines before the try block
        IF Raised \in {intent, intent_name, slots, topic, product, platform,
                       message_content}
        THEN Raises(AttributeError, <<>>)
        \* try: ... except Exception: the apology
        ELSE IF h.raised THEN Returned(Say(Apology), h.calls)
        ELSE h

\* POST /alexa/webhook
alexa_webhook(request_data, d, jre) ==
    LET request_type == Attr(Attr(request_data, "request", EmptyObj), "type", Str(""))
    IN  IF request_type = Raised THEN Unhandled(Raises(AttributeError, <<>>))
        ELSE IF Text(request_type) = "LaunchRequest" THEN Answered(handle_launch_request)
        ELSE IF Text(request_type) = "IntentRequest"
             THEN LET h == handle_intent_request(request_data, d, jre)
                  IN  IF h.raised THEN Unhandled(h) ELSE Answered(h)
        ELSE IF Text(request_type) = "SessionEndedRequest"
             THEN Answered(Returned(Say("Tam biet!"), <<>>))
        ELSE Answered(handle_fallback_intent)

-----------------------------------------------------------------------------
(* The Google Assistant webhook (ai_integrations/google_assistant_integration.py). *)
(* A text is a sequence of words, as for the analytics helpers.             *)

Words(v) == IF v.type = "string" THEN v.items.value ELSE <<>>

\* a handler's try block around one downstream call, with a bare except:
\*   200 -> ok;  other status -> failed;  any exception -> unavailable
GoogleCall(endpoint, d, ok, failed, unavailable) ==
    LET calls == <<[endpoint |-> endpoint, response |-> Respond(endpoint, d)]>>
    IN  IF d.raises THEN Returned(unavailable, calls)
        ELSE IF d.status_code # 200 THEN Returned(failed, calls)
        ELSE IF ~d.is_json \/ d.json = ArrayPayload THEN Returned(unavailable, calls)
        ELSE Returned(ok, calls)

handle_tiktok_intent(parameters, d) ==
    IF ~IsDict(parameters) THEN Raises(AttributeError, <<>>)
    ELSE GoogleCall(TiktokEndpoint, d,
             "Toi da tao script TikTok viral cho chu de '"
                 \o Text(Get(parameters, "topic", Str("trending")))
                 \o "' voi diem viral 0/100. Script: "
                 \o Respond(TiktokEndpoint, d).json.script \o "...",
             "Toi se giup ban tao noi dung TikTok viral. Hay mo ung dung de xem chi tiet.",
             "Toi se ho tro tao noi dung TikTok cho ban.")

handle_shopee_intent(parameters, d) ==
    IF ~IsDict(parameters) THEN Raises(AttributeError, <<>>)
    ELSE GoogleCall(ShopeeEndpoint, d,
             "Hien tai dang theo doi 0 san pham tren Shopee. Co 0 canh bao gia.",
             "Toi se giup ban theo doi gia san pham tren Shopee.",
             "Shopee Price Monitor dang san sang giup ban theo doi gia ca san pham.")

handle_messaging_intent(parameters) ==
    IF ~IsDict(parameters) THEN Raises(AttributeError, <<>>)
    ELSE Returned("Toi co the giup ban gui tin nhan qua "
                      \o Text(Get(parameters, "platform", Str("email")))
                      \o ". Ban muon gui tin nhan gi?", <<>>)

handle_weather_intent(parameters, d) ==
    GoogleCall(DataEndpoint, d,
        "Thoi tiet TP.HCM: N/A C, do am N/A%, gio N/A km/h.",
        "Hien tai khong the lay thong tin thoi tiet. Vui long thu lai sau.",
        "Dich vu thoi tiet tam thoi khong kha dung.")

handle_general_intent(query_text, parameters, d) ==
    GoogleCall(NlpEndpoint, d,
        Get(Obj(Respond(NlpEndpoint, d).json), "response", "Toi da hieu yeu cau cua ban."),
        "Toi la Thach AI, tro ly thong minh cua ban.",
        "Xin chao! Toi la Thach AI, san sang ho tro ban.")

handle_webhook(request_data, d) ==
    LET queryResult == Attr(request_data, "queryResult", EmptyObj)
        intent_name == Attr(Attr(queryResult, "intent", EmptyObj), "displayName", Str(<<>>))
        query_text  == Attr(queryResult, "queryText", Str(<<>>))
        parameters  == Attr(queryResult, "parameters", EmptyObj)
        name        == Lower(Words(intent_name))
        text        == Lower(Words(query_text))
        h == IF Contains(name, <<"tiktok">>) \/ Contains(text, <<"video">>)
             THEN handle_tiktok_intent(parameters, d)
             ELSE IF Contains(name, <<"shopee">>) \/ Contains(text, <<"gia">>)
             THEN handle_shopee_intent(parameters, d)
             ELSE IF Contains(text, <<"tin", "nhan">>) \/ Contains(text, <<"gui">>)
             THEN handle_messaging_intent(parameters)
             ELSE IF Contains(text, <<"thoi", "tiet">>)
             THEN handle_weather_intent(parameters, d)
             ELSE handle_general_intent(query_text, parameters, d)
    IN  IF Raised \in {intent_name, query_text, parameters}
        THEN Returned([fulfillmentText |-> Apology, source |-> "ThachAI-GoogleAssistant"],
                      <<>>)
        ELSE IF h.raised
        THEN Returned([fulfillmentText |-> Apology, source |-> "ThachAI-GoogleAssistant"],
                      h.calls)
        ELSE Returned([fulfillmentText     |-> h.value,
                       fulfillmentMessages |-> <<[text |-> [text |-> <<h.value>>]]>>,
                       source              |-> "ThachAI-GoogleAssistant"],
                      h.calls)

\* POST /google-assistant/webhook
google_webhook(request_data, d) == Answered(handle_webhook(request_data, d))

-----------------------------------------------------------------------------
(* Requests the voice platforms send *)

Slot(value) == Obj([value |-> Str(value)])

AlexaRequest(type) == Obj([request |-> Obj([type |-> Str(type)])])

AlexaIntent(name, slots) ==
    Obj([request |-> Obj([type   |-> Str("IntentRequest"),
                          intent |-> Obj([name |-> Str(name), slots |-> slots])])])

AlexaIntentNames ==
    {"CreateTikTokIntent", "CheckShopeeIntent", "SendMessageIntent", "GetWeatherIntent",
     "GetNewsIntent", "AMAZON.HelpIntent", "AMAZON.StopIntent", "AMAZON.CancelIntent",
     "OrderPizzaIntent"}

\* bodies of POST /alexa/webhook: what request.get_json() returns
AlexaRequests ==
    { Array, EmptyObj, Obj([request |-> Null]),
      AlexaRequest("LaunchRequest"), AlexaRequest("SessionEndedRequest"),
      AlexaRequest("CanFulfillIntentRequest"), AlexaRequest("IntentRequest"),
      Obj([request |-> Obj([type |-> Str("IntentRequest"), intent |-> Null])]) }
    \cup { AlexaIntent(name, EmptyObj) : name \in AlexaIntentNames }
    \cup { AlexaIntent("CreateTikTokIntent", slots) :
               slots \in {Null, Obj([Topic |-> Slot("tet")]), Obj([Topic |-> Str("tet")])} }
    \cup { AlexaIntent("CheckShopeeIntent", Obj([Product |-> Slot("dien thoai")])) }
    \cup { AlexaIntent("SendMessageIntent",
                       Obj([Platform |-> Slot(platform), MessageContent |-> Slot(content)])) :
               platform \in {"", "Email", "fax"}, content \in {"", "hi"} }

GoogleQuery(displayName, queryText, parameters) ==
    Obj([queryResult |-> Obj([intent     |-> Obj([displayName |-> Str(displayName)]),
                              queryText  |-> Str(queryText),
                              parameters |-> parameters])])

\* bodies of POST /google-assistant/webhook
GoogleRequests ==
    { Array, EmptyObj, Obj([queryResult |-> Null]),
      Obj([queryResult |-> Obj([intent |-> Null])]) }
    \cup { GoogleQuery(<<"create", "TikTok">>, <<"tao", "noi", "dung">>, parameters) :
               parameters \in {EmptyObj, Null, Obj([topic |-> Str("tet")])} }
    \cup { GoogleQuery(<<"Shopee", "price">>, <<"san", "pham">>, EmptyObj) }
    \cup { GoogleQuery(<<"default">>, queryText, parameters) :
               queryText \in { <<"tao", "video">>, <<"Gia", "dien", "thoai">>,
                               <<"gui", "tin", "nhan">>, <<"thoi", "tiet">>,
                               <<"xin", "chao">> },
               parameters \in {EmptyObj, Null} }

\* the response the framework sends for what the view function returned or raised
WebhookResponse(request, outcome) ==
    [status_code |-> IF outcome.kind = "return" THEN 200 ELSE 500,
     body        |-> IF outcome.kind = "return" THEN outcome.body
                     ELSE [detail |-> outcome.exception],
     request     |-> request,
     calls       |-> outcome.calls]

AlexaWebhook ==
    \E request \in AlexaRequests, d \in VoiceDownstream, jre \in BOOLEAN :
        /\ last' = Step("alexa_webhook", 0, "", NoDispatch,
                        WebhookResponse(request, alexa_webhook(request, d, jre)))
        /\ UNCHANGED <<now, capabilities, active_sessions, websocket_connections,
                       sockets, background_tasks>>

GoogleWebhook ==
    \E request \in GoogleRequests, d \in VoiceDownstream :
        /\ last' = Step("google_webhook", 0, "", NoDispatch,
                        WebhookResponse(request, google_webhook(request, d)))
        /\ UNCHANGED <<now, capabilities, active_sessions, websocket_connections,
                       sockets, background_tasks>>

-----------------------------------------------------------------------------
(* The sentiment scorer on its own *)

\* news articles as the data endpoint lists them
Articles ==
    { [title |-> <<"gia", "vang", "tang">>, description |-> <<"thi", "truong">>],
      [title |-> <<"tang", "roi", "tang">>, description |-> <<>>],
      [title |-> <<"Tang">>, description |-> <<"tang", "manh">>],
      [title |-> <<"tang", "va", "phat", "trien">>, description |-> <<"thanh", "cong">>],
      [title |-> <<"Giam">>, description |-> <<"kho", "khan">>],
      [title |-> <<"tang", "hay", "giam">>, description |-> <<>>],
      [title |-> <<"thoi", "tiet">>, description |-> <<"nang">>],
      [description |-> <<"khung", "hoang", "va", "khung", "hoang">>],
      [title |-> <<"phat", "hanh">>],
      [title |-> <<"TANG", "truong">>, description |-> <<"tieu", "cuc">>] }

\* the lists of at most MaxArticles articles
NewsLists == UNION { [1..n -> Articles] : n \in 0..MaxArticles }

AnalyzeNewsSentiment ==
    \E news \in NewsLists :
        /\ last' = Step("analyze_news_sentiment", 0, "", NoDispatch,
                        [status_code |-> 0, body |-> analyze_news_sentiment(news),
                         news |-> news])
        /\ UNCHANGED <<now, capabilities, active_sessions, websocket_connections,
                       sockets, background_tasks>>

-----------------------------------------------------------------------------
(* Specifications *)

\* str(uuid.uuid4()): an id no session has; ids are interchangeable, so the
\* least unused one stands for all of them
uuid4 == CHOOSE id \in SessionIds \ DOMAIN active_sessions :
             \A other \in SessionIds \ DOMAIN active_sessions : id <= other

CreateSession ==
    /\ SessionIds \ DOMAIN active_sessions # {}
    /\ \E request \in CreateSessionRequests : create_session(request, uuid4)

ProcessAIRequest ==
    \E session_id \in RequestSessionIds, request \in AIProcessRequests, d \in Downstream :
        process_ai_request(session_id, request, d)

\* the WebSocket object of a new connection: one not in use, the least such
NewWebSocket == CHOOSE ws \in (1..MaxConns) \ DOMAIN sockets :
                    \A other \in (1..MaxConns) \ DOMAIN sockets : ws <= other

WebSocketAccept ==
    /\ (1..MaxConns) \ DOMAIN sockets # {}
    /\ \E session_id \in WebSocketSessionIds : websocket_accept(NewWebSocket, session_id)

WebSocketReceive ==
    \E ws \in 1..MaxConns, message \in WebSocketMessages, d \in Downstream :
        websocket_receive(ws, message, d)

WebSocketDisconnect == \E ws \in 1..MaxConns : websocket_disconnect(ws)

BackgroundProcessTask ==
    \E i \in 1..MaxTasks, d \in Downstream : background_process_task(i, d)

SetEnabled == \E id \in {"multi_messaging"}, enabled \in BOOLEAN : set_enabled(id, enabled)

Register == register("custom_echo")

\* POST /session/create with every kind of body
CreateAnySession ==
    /\ SessionIds \ DOMAIN active_sessions # {}
    /\ \E request \in AllCreateSessionRequests : create_session(request, uuid4)

\* POST /ai/process with every kind of body
ProcessAnyAIRequest ==
    \E session_id \in RequestSessionIds, request \in AllAIProcessRequests,
       d \in Downstream :
        process_ai_request(session_id, request, d)

\* the server as it runs
Next ==
    \/ Tick
    \/ CreateSession
    \/ ProcessAIRequest
    \/ WebSocketAccept
    \/ WebSocketReceive
    \/ WebSocketDisconnect
    \/ BackgroundProcessTask

Spec == Init /\ [][Next]_vars

\* the HTTP side of the server: sessions, /ai/process and its deferred task
NextHttp == Tick \/ CreateSession \/ ProcessAIRequest \/ BackgroundProcessTask

SpecHttp == Init /\ [][NextHttp]_vars

\* the three transports of the dispatcher, with the clock at rest
NextTransports ==
    \/ CreateSession
    \/ ProcessAIRequest
    \/ WebSocketAccept
    \/ WebSocketReceive
    \/ WebSocketDisconnect
    \/ BackgroundProcessTask

SpecTransports == Init /\ [][NextTransports]_vars

\* POST /ai/process and its deferred task beside channels that open and close,
\* where a task handed to add_task is run: the server runs the background
\* tasks of a response once the response is sent
NextDeferred ==
    \/ CreateSession
    \/ ProcessAIRequest
    \/ WebSocketAccept
    \/ WebSocketDisconnect
    \/ BackgroundProcessTask

SpecDeferred == Init /\ [][NextDeferred]_vars /\ WF_vars(BackgroundProcessTask)

\* POST /ai/process and its deferred task on their own, the task being run,
\* while capabilities are disabled and enabled
NextAsync == CreateSession \/ ProcessAIRequest \/ BackgroundProcessTask \/ SetEnabled

SpecAsync == Init /\ [][NextAsync]_vars /\ WF_vars(BackgroundProcessTask)

\* the channels on their own: sessions, and the serving loops of /ws
NextChannel == CreateSession \/ WebSocketAccept \/ WebSocketReceive \/ WebSocketDisconnect

SpecChannel == Init /\ [][NextChannel]_vars

\* the three transports, with an operator who disables and enables a capability
NextOperator == NextTransports \/ SetEnabled

SpecOperator == Init /\ [][NextOperator]_vars

\* the dispatcher behind POST /ai/process and the deferred task, on every body
NextDispatch == CreateAnySession \/ ProcessAnyAIRequest \/ BackgroundProcessTask

SpecDispatch == Init /\ [][NextDispatch]_vars

\* the two voice webhooks, each a server of its own
NextVoice == AlexaWebhook \/ GoogleWebhook

SpecVoice == Init /\ [][NextVoice]_vars

\* the sentiment scorer applied to every list of articles
NextSentiment == AnalyzeNewsSentiment

SpecSentiment == Init /\ [][NextSentiment]_vars

\* POST /ai/process and its deferred task, with a registry that is given a
\* descriptor without a handler
NextRegistry == CreateSession \/ ProcessAIRequest \/ BackgroundProcessTask \/ Register

SpecRegistry == Init /\ [][NextRegistry]_vars

-----------------------------------------------------------------------------
(* Properties *)

\* the dispatches of the last step
Dispatches == {last.dispatch[i] : i \in 1..Len(last.dispatch)}

Registered(dispatch) == dispatch.capability_id \in DOMAIN capabilities
Enabled(dispatch) == Registered(dispatch) /\ capabilities[dispatch.capability_id].enabled

Returns(dispatch) == dispatch.outcome.kind = "return"
IsSuccess(body) ==
    /\ body.success = TRUE
    /\ "result" \in DOMAIN body
    /\ "error" \notin DOMAIN body
IsFailure(body) ==
    /\ body.success = FALSE
    /\ "error" \in DOMAIN body
    /\ "result" \notin DOMAIN body

C2_UnknownCapabilityNotFound ==
    /\ \A dispatch \in Dispatches :
           ~Registered(dispatch) =>
               /\ dispatch.outcome = HTTPException(404, "Capability not found")
               /\ dispatch.invoked = ""
               /\ dispatch.calls = <<>>
    /\ (last.op = "process_ai_request" /\ last.capability_id \notin DOMAIN capabilities)
           => last.response.status_code = 404

\* the channel dispatched an unknown capability id for a stored session
C2_Witness ==
    \E dispatch \in Dispatches :
        /\ ~Registered(dispatch)
        /\ dispatch.transport = "websocket"
        /\ dispatch.session_id \in DOMAIN active_sessions

\* C3: a dispatch on a registered capability whose enabled flag is false raises
\* 403 "Capability disabled", invokes no handler and calls nothing downstream.
C3_DisabledForbidden ==
    \A dispatch \in Dispatches :
        (Registered(dispatch) /\ ~Enabled(dispatch)) =>
            /\ dispatch.outcome = HTTPException(403, "Capability disabled")
            /\ dispatch.invoked = ""
            /\ dispatch.calls = <<>>

\* POST /ai/process dispatched a disabled capability and answered 403
C3_Witness ==
    \E dispatch \in Dispatches :
        /\ Registered(dispatch) /\ ~Enabled(dispatch)
        /\ dispatch.transport = "http"
        /\ last.response.status_code = 403

Called(dispatch) == Len(dispatch.calls)
MessagingPlatforms == {"email", "sms", "telegram", "zalo"}

\* C4, as claimed: whenever a downstream call of a dispatch failed (the request
\* raised, or the status was not 200), the dispatch returns a Failure envelope.
C4_DownstreamFailureIsFailure ==
    \A dispatch \in Dispatches :
        (\E i \in 1..Called(dispatch) : DownstreamFailed(dispatch.calls[i].response)) =>
            /\ Returns(dispatch)
            /\ IsFailure(dispatch.outcome.body)

OmitsPlatform(dispatch) ==
    /\ dispatch.capability_id = "multi_messaging"
    /\ Enabled(dispatch)
    /\ IsDict(dispatch.input_data)
    /\ "platform" \notin DOMAIN dispatch.input_data.items

C6_RoutesOrFails ==
    \A dispatch \in Dispatches :
        ( /\ dispatch.capability_id = "multi_messaging"
          /\ Enabled(dispatch)
          /\ IsDict(dispatch.input_data)
          /\ "platform" \in DOMAIN dispatch.input_data.items ) =>
            LET platform == dispatch.input_data.items["platform"] IN
            IF platform \in MessagingPlatforms
            THEN /\ Called(dispatch) = 1
                 /\ dispatch.calls[1].endpoint = "POST /api/messaging/send-" \o platform
            ELSE /\ dispatch.calls = <<>>
                 /\ Returns(dispatch)
                 /\ IsFailure(dispatch.outcome.body)

DownstreamSucceeded(dispatch) ==
    /\ Enabled(dispatch)
    /\ dispatch.session_id \in DOMAIN active_sessions
    /\ Called(dispatch) = 1
    /\ DownstreamOk(dispatch.calls[1].response)

CarriesIds(dispatch) ==
    /\ Returns(dispatch)
    /\ IsSuccess(dispatch.outcome.body)
    /\ dispatch.outcome.body.capability_id = dispatch.capability_id
    /\ dispatch.outcome.body.session_id = dispatch.session_id

PayloadRelays == {"send_multi_platform_message", "generate_content", "monitor_prices"}
TextRelays == {"process_vietnamese_text", "process_voice_command"}

C8_LastActivityRefreshed ==
    [][ /\ \A s \in DOMAIN active_sessions :
               /\ s \in DOMAIN active_sessions'
               /\ active_sessions'[s].last_activity >= active_sessions[s].last_activity
        /\ \A i \in 1..Len(last'.dispatch) :
               ( /\ last'.dispatch[i].outcome.kind = "return"
                 /\ last'.dispatch[i].outcome.body.success
                 /\ "error" \notin DOMAIN last'.dispatch[i].outcome.body.result ) =>
                   active_sessions'[last'.dispatch[i].session_id].last_activity = now'
      ]_vars

C10_UnknownSession404ElseEnvelope ==
    [][ last'.op = "process_ai_request" =>
            IF last'.session_id \notin DOMAIN active_sessions
            THEN /\ last'.response.status_code = 404
                 /\ last'.dispatch = NoDispatch
                 /\ background_tasks' = background_tasks
                 /\ active_sessions' = active_sessions
            ELSE /\ last'.response.status_code = 200
                 /\ "success" \in DOMAIN last'.response.body
      ]_vars

\* C10, amended: POST /ai/process with a session id the store does not hold
\* answers 404, dispatches nothing, adds no background task and leaves the
\* store as it was; with a stored session id it makes one dispatch and answers
\* with its outcome: 200 with the dispatch envelope when the capability is
\* registered and enabled, the dispatcher's 404 when the capability id is
\* unknown and its 403 when the capability is disabled.
C10_UnknownSession404ElseOutcome ==
    [][ last'.op = "process_ai_request" =>
            IF last'.session_id \notin DOMAIN active_sessions
            THEN /\ last'.response.status_code = 404
                 /\ last'.dispatch = NoDispatch
                 /\ background_tasks' = background_tasks
                 /\ active_sessions' = active_sessions
            ELSE /\ Len(last'.dispatch) = 1
                 /\ LET dispatch == last'.dispatch[1]
                        known    == dispatch.capability_id \in DOMAIN capabilities'
                    IN  /\ dispatch.capability_id = last'.capability_id
                        /\ dispatch.session_id = last'.session_id
                        /\ (known /\ capabilities'[dispatch.capability_id].enabled) =>
                               /\ last'.response.status_code = 200
                               /\ dispatch.outcome.kind = "return"
                               /\ last'.response.body = dispatch.outcome.body
                               /\ "success" \in DOMAIN last'.response.body
                        /\ ~known => last'.response.status_code = 404
                        /\ (known /\ ~capabilities'[dispatch.capability_id].enabled) =>
                               last'.response.status_code = 403
      ]_vars

\* a request named a session id the store does not hold while it held another,
\* and was answered 404
C10_Witness ==
    /\ last.op = "process_ai_request"
    /\ last.session_id \notin DOMAIN active_sessions
    /\ active_sessions # <<>>
    /\ last.response.status_code = 404

\* the steps of the serving loop of channel ws that read a message of the given
\* type tag
Receives(ws, type) ==
    \E message \in WebSocketMessages, d \in Downstream :
        /\ message.json
        /\ message.type = type
        /\ websocket_receive(ws, message, d)

\* the text the last step sent over channel ws
Replied(ws, text) ==
    /\ "sent" \in DOMAIN last'.response.body
    /\ last'.response.body.sent = ws
    /\ last'.response.body.text = text

\* the step left every channel open and every registration in place
ChannelsKept == sockets' = sockets /\ websocket_connections' = websocket_connections

\* C11, as claimed: on every channel a ping is answered with a pong and
\* dispatches nothing, and a message with an unrecognized type tag is answered
\* with an inline error, the channel staying open and registered.
C11_PingPongUnknownError ==
    [][ \A ws \in 1..MaxConns :
            /\ Receives(ws, "ping") =>
                   /\ Replied(ws, [type |-> "pong", timestamp |-> now])
                   /\ last'.dispatch = NoDispatch
            /\ Receives(ws, "subscribe") =>
                   /\ \E text \in {[error |-> "Unknown message type"],
                                   [error |-> "Session not found"]} : Replied(ws, text)
                   /\ last'.dispatch = NoDispatch
                   /\ ChannelsKept
      ]_vars

\* C11, amended: on a channel whose session id is in the store a ping is
\* answered with a pong carrying the current time and dispatches nothing, and a
\* message with an unrecognized type tag is answered with the inline error
\* "Unknown message type"; on a channel whose session id is not in the store
\* both are answered with the inline error "Session not found"; in every one of
\* these cases nothing is dispatched and every channel stays open and registered
\* as it was.
C11_KnownSessionPingPong ==
    [][ \A ws \in 1..MaxConns :
            LET known == ws \in DOMAIN sockets
                             /\ sockets[ws].session_id \in DOMAIN active_sessions
            IN  /\ Receives(ws, "ping") =>
                       /\ Replied(ws, IF known THEN [type |-> "pong", timestamp |-> now]
                                      ELSE [error |-> "Session not found"])
                       /\ last'.dispatch = NoDispatch
                       /\ ChannelsKept
                /\ Receives(ws, "subscribe") =>
                       /\ Replied(ws, IF known THEN [error |-> "Unknown message type"]
                                      ELSE [error |-> "Session not found"])
                       /\ last'.dispatch = NoDispatch
                       /\ ChannelsKept
      ]_vars

\* a channel of a stored session, open and registered, was just answered the
\* error for an unrecognized type tag
C11_Witness ==
    /\ last.op = "websocket_receive"
    /\ last.session_id \in DOMAIN active_sessions
    /\ "sent" \in DOMAIN last.response.body
    /\ last.response.body.text = [error |-> "Unknown message type"]
    /\ last.response.body.sent \in DOMAIN sockets
    /\ last.session_id \in DOMAIN websocket_connections
    /\ websocket_connections[last.session_id] = last.response.body.sent

\* C12, as claimed: every ai_request the serving loop dispatches is answered
\* with one reply, the envelope the dispatch returned, and no outcome of the
\* dispatcher, an unknown or disabled capability id included, ends the loop: the
\* channel that carried the message is still open afterwards.
C12_AiRequestRepliedChannelKept ==
    (last.op = "websocket_receive" /\ last.dispatch # NoDispatch) =>
        /\ Len(last.dispatch) = 1
        /\ Returns(last.dispatch[1])
        /\ "sent" \in DOMAIN last.response.body
        /\ last.response.body.text = last.dispatch[1].outcome.body
        /\ last.response.body.sent \in DOMAIN sockets

\* C13: a deferred task that was enqueued is run, whatever happens to the
\* channels meanwhile: no channel step takes a task off the queue.  When it
\* runs it makes its dispatch, which returns; it pushes the returned envelope
\* as a background_result over the connection registered for its session at
\* that moment, if there is one, and drops it otherwise; either way the task
\* leaves the queue, nothing is enqueued again and nothing is raised.
C13_DeferredTaskRunsPushesIfRegistered ==
    /\ [][ /\ last'.op \in {"websocket_accept", "websocket_disconnect"} =>
                  background_tasks' = background_tasks
           /\ last'.op = "background_process_task" =>
                  /\ Len(last'.dispatch) = 1
                  /\ last'.dispatch[1].transport = "background"
                  /\ Returns(last'.dispatch[1])
                  /\ Len(background_tasks') = Len(background_tasks) - 1
                  /\ IF last'.session_id \in DOMAIN websocket_connections
                     THEN last'.response.body =
                              [sent |-> websocket_connections[last'.session_id],
                               text |-> [type   |-> "background_result",
                                         result |-> last'.dispatch[1].outcome.body]]
                     ELSE last'.response.body = [dropped |-> TRUE]
                  /\ UNCHANGED <<websocket_connections, sockets>>
         ]_vars
    /\ (background_tasks # <<>>) ~> (last.op = "background_process_task")

\* a deferred task ran while a channel was open for its session whose
\* registration was gone, and its result was dropped
C13_Witness ==
    /\ last.op = "background_process_task"
    /\ last.response.body = [dropped |-> TRUE]
    /\ last.session_id \notin DOMAIN websocket_connections
    /\ \E ws \in DOMAIN sockets : sockets[ws].session_id = last.session_id

\* the phrases the Alexa skill speaks when it cannot do what was asked
AlexaCannedPhrases ==
    { Apology,
      "Khong the tao script TikTok luc nay. Vui long thu lai sau.",
      "Ket noi den dich vu TikTok Creator gap su co. Vui long thu lai.",
      "Khong the truy cap du lieu Shopee luc nay.",
      "Dich vu Shopee Monitor tam thoi khong kha dung.",
      "Khong the lay thong tin thoi tiet luc nay.",
      "Dich vu thoi tiet tam thoi khong kha dung.",
      "Khong the truy cap tin tuc luc nay.",
      "Dich vu tin tuc tam thoi khong kha dung.",
      "Toi chua hieu yeu cau cua ban." }

\* the phrases the Google action speaks when it cannot do what was asked
GoogleCannedPhrases ==
    { Apology,
      "Toi se giup ban tao noi dung TikTok viral. Hay mo ung dung de xem chi tiet.",
      "Toi se ho tro tao noi dung TikTok cho ban.",
      "Toi se giup ban theo doi gia san pham tren Shopee.",
      "Shopee Price Monitor dang san sang giup ban theo doi gia ca san pham.",
      "Hien tai khong the lay thong tin thoi tiet. Vui long thu lai sau.",
      "Dich vu thoi tiet tam thoi khong kha dung.",
      "Toi la Thach AI, tro ly thong minh cua ban.",
      "Xin chao! Toi la Thach AI, san sang ho tro ban." }

\* a downstream call of the last webhook request failed, or answered with a
\* body its handler could not read
VoiceDownstreamFailed ==
    \E i \in 1..Len(last.response.calls) :
        LET response == last.response.calls[i].response
        IN  ~DownstreamOk(response) \/ response.json = ArrayPayload

\* an Alexa request envelope is malformed or absent when the body, its request,
\* the intent of an IntentRequest, its slots or one of the slots is present but
\* is no object
AlexaEnvelopeOk(request) ==
    /\ IsDict(request)
    /\ IsDict(Get(request, "request", EmptyObj))
    /\ Text(Get(Get(request, "request", EmptyObj), "type", Str(""))) = "IntentRequest" =>
           LET intent == Get(Get(request, "request", EmptyObj), "intent", EmptyObj)
               slots  == Get(intent, "slots", EmptyObj)
           IN  /\ IsDict(intent)
               /\ IsDict(slots)
               /\ \A key \in DOMAIN slots.items : IsDict(slots.items[key])

\* a Dialogflow request envelope is malformed or absent when the body, its
\* queryResult or the intent of the queryResult is present but is no object
GoogleEnvelopeOk(request) ==
    /\ IsDict(request)
    /\ IsDict(Get(request, "queryResult", EmptyObj))
    /\ IsDict(Get(Get(request, "queryResult", EmptyObj), "intent", EmptyObj))

\* C14, as claimed: every request to the Alexa webhook or to the Google
\* Assistant webhook whose processing fails, by a failed downstream call, an
\* exception in a handler or a malformed or absent request envelope, is
\* answered 200 with the platform's response format carrying one of the canned
\* phrases; none ends in an exception that leaves the webhook.
C14_VoiceFailureSpeaksCannedPhrase ==
    /\ ( /\ last.op = "alexa_webhook"
         /\ VoiceDownstreamFailed \/ ~AlexaEnvelopeOk(last.response.request) ) =>
           /\ last.response.status_code = 200
           /\ last.response.body.version = "1.0"
           /\ last.response.body.response.outputSpeech.text \in AlexaCannedPhrases
    /\ ( /\ last.op = "google_webhook"
         /\ VoiceDownstreamFailed \/ ~GoogleEnvelopeOk(last.response.request) ) =>
           /\ last.response.status_code = 200
           /\ last.response.body.source = "ThachAI-GoogleAssistant"
           /\ last.response.body.fulfillmentText \in GoogleCannedPhrases

\* the number of places in a text where a marker occurs
Occurrences(text, keyword) ==
    Cardinality({i \in 1..(Len(text) - Len(keyword) + 1) :
                     SubSeq(text, i, i + Len(keyword) - 1) = keyword})

\* the occurrences of the markers of a list in the titles and descriptions of
\* the articles
RECURSIVE OccurrencesIn(_, _, _, _)
OccurrencesIn(news, keywords, i, k) ==
    IF i > Len(news) THEN 0
    ELSE IF k > Len(keywords) THEN OccurrencesIn(news, keywords, i + 1, 1)
    ELSE Occurrences(Lower(TextOf(news[i], "title")), keywords[k])
         + Occurrences(Lower(TextOf(news[i], "description")), keywords[k])
         + OccurrencesIn(news, keywords, i, k + 1)

\* the pairs of an article and a marker of a list that its title or its
\* description holds
MarkersPresent(news, keywords) ==
    { <<i, k>> \in (1..Len(news)) \X (1..Len(keywords)) :
          \E key \in {"title", "description"} :
              Occurrences(Lower(TextOf(news[i], key)), keywords[k]) > 0 }

LabelOf(score) ==
    IF score > 0 THEN "positive" ELSE IF score < 0 THEN "negative" ELSE "neutral"

\* C15, as claimed: the scorer answers {sentiment: neutral, articles: 0} for an
\* empty list; otherwise its score is +1 for every occurrence of a positive
\* marker and -1 for every occurrence of a negative marker in the title or the
\* description of any article, and the label is the sign of the score.
C15_ScoreCountsOccurrences ==
    last.op = "analyze_news_sentiment" =>
        LET news == last.response.news
            body == last.response.body
        IN  IF news = <<>> THEN body = [sentiment |-> "neutral", articles |-> 0]
            ELSE /\ body.score = OccurrencesIn(news, positive_keywords, 1, 1)
                                 - OccurrencesIn(news, negative_keywords, 1, 1)
                 /\ body.sentiment = LabelOf(body.score)

\* C15, amended: the scorer answers {sentiment: neutral, articles: 0} for an
\* empty list; otherwise its score is, summed over the articles, +1 for every
\* positive marker and -1 for every negative marker that the article's title or
\* description holds, each marker counted once per article however often and
\* in whichever of the two fields it occurs (so an article adds between -5 and
\* +5), and the label is the sign of the score.
C15_ScoreCountsMarkersPresent ==
    last.op = "analyze_news_sentiment" =>
        LET news == last.response.news
            body == last.response.body
        IN  IF news = <<>> THEN body = [sentiment |-> "neutral", articles |-> 0]
            ELSE /\ body.score = Cardinality(MarkersPresent(news, positive_keywords))
                                 - Cardinality(MarkersPresent(news, negative_keywords))
                 /\ body.score >= -5 * Len(news) /\ body.score <= 5 * Len(news)
                 /\ body.sentiment = LabelOf(body.score)
                 /\ body.articles = Len(news)

\* one article whose title holds the marker "tang" twice was scored +1
C15_Witness ==
    /\ last.op = "analyze_news_sentiment"
    /\ Len(last.response.news) = 1
    /\ Occurrences(Lower(TextOf(last.response.news[1], "title")), <<"tang">>) = 2
    /\ last.response.body.score = 1
    /\ last.response.body.sentiment = "positive"

\* the steps of POST /ai/process for a stored session with the given async flag
Processes(session_id, request) ==
    /\ session_id \in DOMAIN active_sessions
    /\ \E d \in Downstream : process_ai_request(session_id, request, d)

\* the deferred task of a request
TaskOf(session_id, request) ==
    [capability_id |-> request.capability_id, input_data |-> request.input_data,
     session_id |-> session_id]

\* the step ran one dispatch, of the given capability id, input and session
RanOnce(transport, task) ==
    /\ Len(last'.dispatch) = 1
    /\ last'.dispatch[1].transport = transport
    /\ last'.dispatch[1].capability_id = task.capability_id
    /\ last'.dispatch[1].input_data = task.input_data
    /\ last'.dispatch[1].session_id = task.session_id

\* C16, as claimed: a POST /ai/process with the async flag set runs its dispatch
\* once before the response and enqueues one deferred task that runs the same
\* dispatch once more; with the flag unset the dispatch runs once and no
\* deferred task is enqueued.
C16_AsyncRunsDispatchTwice ==
    [][ \A session_id \in SessionIds, request \in AIProcessRequests :
            Processes(session_id, request) =>
                /\ RanOnce("http", TaskOf(session_id, request))
                /\ background_tasks' =
                       IF request.async_processing
                       THEN Append(background_tasks, TaskOf(session_id, request))
                       ELSE background_tasks
      ]_vars

\* C16, amended: a POST /ai/process for a stored session runs its dispatch once
\* before the response.  With the async flag set, and the dispatch having
\* returned an envelope, it enqueues one deferred task with the same capability
\* id, input and session; with the flag unset, or the dispatch having raised
\* (unknown or disabled capability), it enqueues none.  A deferred task that was
\* enqueued is run, it runs that same dispatch once and leaves the queue.
C16_AsyncReturnedRunsDispatchTwice ==
    /\ [][ /\ \A session_id \in SessionIds, request \in AIProcessRequests :
                  Processes(session_id, request) =>
                      /\ RanOnce("http", TaskOf(session_id, request))
                      /\ background_tasks' =
                             IF request.async_processing /\ Returns(last'.dispatch[1])
                             THEN Append(background_tasks, TaskOf(session_id, request))
                             ELSE background_tasks
           /\ last'.op = "background_process_task" =>
                  \E i \in 1..Len(background_tasks) :
                      /\ RanOnce("background", background_tasks[i])
                      /\ background_tasks' = Without(background_tasks, i)
         ]_vars
    /\ (background_tasks # <<>>) ~>
           (\E dispatch \in Dispatches : dispatch.transport = "background")

\* the deferred task of an async request ran the dispatch the request had run
C16_Witness ==
    /\ last.op = "background_process_task"
    /\ Len(last.dispatch) = 1
    /\ last.dispatch[1].transport = "background"
    /\ last.dispatch[1].capability_id = "multi_messaging"
    /\ last.dispatch[1].input_data = Message("email")
    /\ background_tasks = <<>>

\* C17: no step removes or replaces a session: every session id in the store
\* stays in it with the same platform type, user id and created_at, so the
\* number of sessions never decreases.
C17_SessionsNeverRemoved ==
    [][ /\ \A s \in DOMAIN active_sessions :
               /\ s \in DOMAIN active_sessions'
               /\ active_sessions'[s].session_id = active_sessions[s].session_id
               /\ active_sessions'[s].platform_type = active_sessions[s].platform_type
               /\ active_sessions'[s].user_id = active_sessions[s].user_id
               /\ active_sessions'[s].created_at = active_sessions[s].created_at
        /\ Cardinality(DOMAIN active_sessions') >= Cardinality(DOMAIN active_sessions)
      ]_vars

\* a session created earlier was dispatched through later, beside a second
\* session, and still holds its created_at
C17_Witness ==
    /\ last.op = "process_ai_request"
    /\ last.session_id \in DOMAIN active_sessions
    /\ Cardinality(DOMAIN active_sessions) = 2
    /\ active_sessions[last.session_id].created_at < now
    /\ active_sessions[last.session_id].last_activity = now

\* the registry as register_capabilities leaves it
SixBuiltins ==
    /\ DOMAIN capabilities =
           {"vietnamese_nlp", "content_generation", "price_monitoring", "voice_command",
            "multi_messaging", "business_analytics"}
    /\ \A id \in DOMAIN capabilities :
           /\ capabilities[id].id = id
           /\ capabilities[id].enabled
           /\ capabilities[id].processing_function # NoHandler

\* C18: the registry holds exactly the six built-in descriptors, each enabled and
\* each with a handler, from startup on, and no session, dispatch, channel or
\* background step changes it.
C18_RegistrySixBuiltinsUnchanged ==
    /\ []SixBuiltins
    /\ [][capabilities' = capabilities]_vars

\* a channel dispatched a built-in capability and the registry is as it was
C18_Witness ==
    /\ \E dispatch \in Dispatches :
           /\ dispatch.transport = "websocket"
           /\ dispatch.invoked = "send_multi_platform_message"
    /\ SixBuiltins

\* C19: a dispatch of an enabled descriptor that has no handler invokes the
\* default handler, calls nothing downstream and returns a Success envelope that
\* names the capability id and whose result holds the input as it was given and
\* a message naming the capability id.
C19_NoHandlerEchoes ==
    \A dispatch \in Dispatches :
        ( /\ Enabled(dispatch)
          /\ capabilities[dispatch.capability_id].processing_function = NoHandler ) =>
            /\ dispatch.invoked = "default_processor"
            /\ dispatch.calls = <<>>
            /\ Returns(dispatch)
            /\ IsSuccess(dispatch.outcome.body)
            /\ dispatch.outcome.body.capability_id = dispatch.capability_id
            /\ "input_data" \in DOMAIN dispatch.outcome.body.result
            /\ dispatch.outcome.body.result.input_data = dispatch.input_data
            /\ dispatch.outcome.body.result.message =
                   "Capability " \o dispatch.capability_id \o " processed successfully"

\* POST /ai/process dispatched a descriptor registered without a handler
C19_Witness ==
    \E dispatch \in Dispatches :
        /\ dispatch.capability_id = "custom_echo"
        /\ Enabled(dispatch)
        /\ dispatch.invoked = "default_processor"
        /\ last.response.status_code = 200

\* the granted capability ids a session may hold: none, the dispatched one,
\* ids the registry does not know, other ids
GrantSets ==
    { <<>>, <<"multi_messaging">>, <<"ghost_capability">>,
      <<"voice_command", "ghost_capability">>,
      <<"vietnamese_nlp", "content_generation", "price_monitoring", "voice_command",
        "multi_messaging", "business_analytics">> }

\* C20: the outcome of a dispatch does not depend on the granted capability ids
\* of its session: under the downstream behaviour the dispatch met, the same
\* capability id and input dispatched through a session that differs only in
\* its granted ids, whichever they are, gives the same outcome.
C20_GrantsDoNotAffectOutcome ==
    \A dispatch \in Dispatches : \A d \in Downstream :
        LET session == active_sessions[dispatch.session_id]
            r == process_ai_capability(dispatch.capability_id, dispatch.input_data,
                                       session, d, now)
        IN  (r.outcome = dispatch.outcome /\ r.calls = dispatch.calls) =>
                \A granted \in GrantSets :
                    LET other == [session EXCEPT !.capabilities = granted]
                    IN  process_ai_capability(dispatch.capability_id,
                                              dispatch.input_data, other, d,
                                              now).outcome = dispatch.outcome

\* a session that was granted nothing dispatched a capability with success, and
\* a session that was granted an id the registry does not know is stored
C20_Witness ==
    /\ \E dispatch \in Dispatches :
           /\ active_sessions[dispatch.session_id].capabilities = <<>>
           /\ dispatch.capability_id = "multi_messaging"
           /\ Returns(dispatch)
           /\ IsSuccess(dispatch.outcome.body)
           /\ "error" \notin DOMAIN dispatch.outcome.body.result
    /\ \E s \in DOMAIN active_sessions :
           active_sessions[s].capabilities = <<"multi_messaging", "ghost_capability">>


-----------------------------------------------------------------------------
\* the downstream endpoints a built-in capability may call
EndpointsOf(capability_id) ==
    CASE capability_id = "vietnamese_nlp"     -> {NlpEndpoint}
      [] capability_id = "voice_command"      -> {NlpEndpoint}
      [] capability_id = "content_generation" -> {TiktokEndpoint}
      [] capability_id = "price_monitoring"   -> {ShopeeEndpoint}
      [] capability_id = "multi_messaging"    -> SendEndpoints
      [] capability_id = "business_analytics" -> {DataEndpoint}
      [] OTHER                                -> {}

\* C21: no downstream call is retried.  One dispatch of a built-in capability
\* issues at most one downstream request, to an endpoint of that capability;
\* a dispatch that invoked no handler issues none; and a request that failed
\* (it raised, or its status was not 200) is the only request of its dispatch.
C21_NoDownstreamRetry ==
    \A dispatch \in Dispatches :
        /\ Called(dispatch) <= 1
        /\ dispatch.invoked = "" => Called(dispatch) = 0
        /\ \A i \in 1..Called(dispatch) :
               /\ dispatch.calls[i].endpoint \in EndpointsOf(dispatch.capability_id)
               /\ DownstreamFailed(dispatch.calls[i].response) => Called(dispatch) = 1

\* a dispatch whose one downstream request failed, and which ended there
C21_Witness ==
    \E dispatch \in Dispatches :
        /\ dispatch.capability_id = "multi_messaging"
        /\ Called(dispatch) = 1
        /\ DownstreamFailed(dispatch.calls[1].response)
        /\ Returns(dispatch)


-----------------------------------------------------------------------------
\* the channels the step closed
Closed == DOMAIN sockets \ DOMAIN sockets'

\* C22, as claimed: a connection registered for a session id is a channel that
\* is open, and open for that session id; and the close of a channel removes
\* no registration but its own: when two channels are open for one session id
\* and the one that is not registered closes, the registered one stays
\* registered, so that a deferred result for the session is still sent over it.
C22_CloseRemovesOwnRegistration ==
    /\ [](\A session_id \in DOMAIN websocket_connections :
              /\ websocket_connections[session_id] \in DOMAIN sockets
              /\ sockets[websocket_connections[session_id]].session_id = session_id)
    /\ [][\A session_id \in DOMAIN websocket_connections :
              (Closed # {} /\ websocket_connections[session_id] \notin Closed) =>
                  /\ session_id \in DOMAIN websocket_connections'
                  /\ websocket_connections'[session_id] = websocket_connections[session_id]
         ]_vars


-----------------------------------------------------------------------------
\* the step answered a POST /ai/process with a not-found or forbidden fault
Faulted ==
    /\ last'.op = "process_ai_request"
    /\ last' # last
    /\ last'.response.status_code \in {403, 404}

\* C23: a deferred task is enqueued only after the synchronous dispatch of the
\* same POST /ai/process has returned an envelope.  A request answered with a
\* not-found or forbidden fault (unknown session, when nothing is dispatched;
\* unknown or disabled capability, when the dispatch raises) leaves the queue of
\* deferred tasks as it was; and whenever a request adds a task, it adds one,
\* its own dispatch has returned an envelope, the response is that envelope
\* with status 200, and the task carries the capability id, input and session
\* of that dispatch.
C23_EnqueuedOnlyAfterEnvelope ==
    [][ /\ Faulted =>
               /\ background_tasks' = background_tasks
               /\ last'.dispatch = NoDispatch <=>
                      last'.session_id \notin DOMAIN active_sessions
               /\ \A i \in 1..Len(last'.dispatch) : ~Returns(last'.dispatch[i])
        /\ (last'.op = "process_ai_request" /\ background_tasks' # background_tasks) =>
               /\ Len(last'.dispatch) = 1
               /\ Returns(last'.dispatch[1])
               /\ last'.response = [status_code |-> 200,
                                    body |-> last'.dispatch[1].outcome.body]
               /\ background_tasks' =
                      Append(background_tasks,
                             [capability_id |-> last'.dispatch[1].capability_id,
                              input_data    |-> last'.dispatch[1].input_data,
                              session_id    |-> last'.dispatch[1].session_id])
      ]_vars

\* a request for a stored session and a disabled capability was answered 403
\* and the queue of deferred tasks is empty
C23_Witness ==
    /\ last.op = "process_ai_request"
    /\ last.session_id \in DOMAIN active_sessions
    /\ last.response.status_code = 403
    /\ Len(last.dispatch) = 1
    /\ ~Returns(last.dispatch[1])
    /\ background_tasks = <<>>

====
